---- MODULE Spec2Model ----
(***************************************************************************)
(* A model of the ai-note extension: the todo store (StorageService), the  *)
(* marker parser (TodoParser), the debounced watcher (FileWatcher), the    *)
(* inference client (LLMService) and the commands of extension.ts.         *)
(*                                                                         *)
(* A JavaScript string is a sequence of one-character strings, so that     *)
(* toLowerCase, replace, trim, split and the regular expressions are       *)
(* computed character by character as the code computes them.              *)
(***************************************************************************)
EXTENDS Integers, Sequences, FiniteSets, TLC

VARIABLES
    store,          \* globalState['ai-note.todos'] as the extension host holds it
    persisted,      \* the same slot as last written through to durable storage
    now,            \* Date.now()
    disk,           \* per file: index of its text in Docs, or Unreadable
    pendingDelete,  \* files whose onDidDelete event is not handled yet
    debounceTimer,  \* FileWatcher.debounceTimer: the armed timer, its uri and due time
    tasks,          \* parseAndUpdate calls in flight, one slot per origin
    scanQueue,      \* the files scanAllFiles has still to parse
    scans,          \* ai-note.semanticScan invocations in flight
    apiKey,         \* whether the secret store holds an API key
    events,         \* number of outside events (edits, commands) so far
    serial,         \* history: the store operations applied one at a time
    notified,       \* history, per file: when it last changed, and whether a
                    \* debounced parseAndUpdate is still owed for that
    call,           \* the last direct call of a store function, with its result
    disposed        \* whether FileWatcher.dispose() has been called

vars == <<store, persisted, now, disk, pendingDelete, debounceTimer, tasks,
          scanQueue, scans, apiKey, events, serial, notified, call, disposed>>

(***************************************************************************)
(* Strings                                                                 *)
(***************************************************************************)

UpperLetters == <<"A", "B", "C", "D", "E", "F", "G", "H", "I", "J", "K", "L", "M",
                  "N", "O", "P", "Q", "R", "S", "T", "U", "V", "W", "X", "Y", "Z">>

LowerLetters == <<"a", "b", "c", "d", "e", "f", "g", "h", "i", "j", "k", "l", "m",
                  "n", "o", "p", "q", "r", "s", "t", "u", "v", "w", "x", "y", "z">>

\* The characters \s and trim() treat as white space (those the model uses).
IsWhiteSpace(c) == c \in {" ", "\t", "\n", "\r"}

Range(s) == {s[i] : i \in 1..Len(s)}

LowerChar(c) ==
    IF \E i \in 1..Len(UpperLetters) : UpperLetters[i] = c
    THEN LowerLetters[CHOOSE i \in 1..Len(UpperLetters) : UpperLetters[i] = c]
    ELSE c

toLowerCase(s) == [i \in 1..Len(s) |-> LowerChar(s[i])]

RECURSIVE trimStart(_)
trimStart(s) ==
    IF s # <<>> /\ IsWhiteSpace(Head(s)) THEN trimStart(Tail(s)) ELSE s

RECURSIVE trimEnd(_)
trimEnd(s) ==
    IF s # <<>> /\ IsWhiteSpace(s[Len(s)])
    THEN trimEnd(SubSeq(s, 1, Len(s) - 1))
    ELSE s

trim(s) == trimEnd(trimStart(s))

\* s.replace(/\s+/g, ' '): every maximal run of white space becomes one space.
RECURSIVE replaceWhiteSpaceRuns(_)
replaceWhiteSpaceRuns(s) ==
    IF s = <<>> THEN <<>>
    ELSE IF IsWhiteSpace(Head(s))
         THEN <<" ">> \o replaceWhiteSpaceRuns(trimStart(s))
         ELSE <<Head(s)>> \o replaceWhiteSpaceRuns(Tail(s))

\* s.split(' '): the pieces between single spaces; '' splits to [''].
RECURSIVE splitOnSpace(_, _)
splitOnSpace(s, piece) ==
    IF s = <<>> THEN <<piece>>
    ELSE IF Head(s) = " "
         THEN <<piece>> \o splitOnSpace(Tail(s), <<>>)
         ELSE splitOnSpace(Tail(s), Append(piece, Head(s)))

split(s) == splitOnSpace(s, <<>>)

(***************************************************************************)
(* Types (types/todo.ts)                                                   *)
(***************************************************************************)

Pending == "pending"
InProgress == "in-progress"
Completed == "completed"
TodoStatus == {Pending, InProgress, Completed}

Regex == "regex"
Semantic == "semantic"

Undefined == "undefined"

\* A TodoItem.  An absent context is the empty string; an absent confidence
\* is Undefined.
TodoItem(id, content, status, filePath, lineNumber, at, context, source, confidence) ==
    [id |-> id, content |-> content, status |-> status, filePath |-> filePath,
     lineNumber |-> lineNumber, createdAt |-> at, updatedAt |-> at,
     context |-> context, source |-> source, confidence |-> confidence]

(***************************************************************************)
(* StorageService: the functions on the stored collection                  *)
(***************************************************************************)

\* A normalization that keeps the letter case.
normalizeContentKeepingCase(content) == trim(replaceWhiteSpaceRuns(content))

normalizeContent(content) == trim(replaceWhiteSpaceRuns(toLowerCase(content)))

\* The quotient intersection / union as the pair of its terms; 1 is 1/1.
calculateSimilarity(a, b) ==
    LET normalizedA == normalizeContent(a)
        normalizedB == normalizeContent(b)
        wordsA == Range(split(normalizedA))
        wordsB == Range(split(normalizedB))
    IN  IF normalizedA = normalizedB
        THEN [num |-> 1, den |-> 1]
        ELSE [num |-> Cardinality(wordsA \cap wordsB),
              den |-> Cardinality(wordsA \cup wordsB)]

\* A threshold that takes a similarity of exactly 0.8 too.
AboveThresholdOrEqual(sim) == sim.num * 10 >= sim.den * 8

\* calculateSimilarity(...) > 0.8
AboveThreshold(sim) == sim.num * 10 > sim.den * 8

Abs(n) == IF n < 0 THEN -n ELSE n

\* A line distance whose limit moves with the clock.
WithinLinesByClock(a, b) == Abs(a - b) <= now

\* Math.abs(existing.lineNumber - semanticTodo.lineNumber) <= 2
WithinLines(a, b) == Abs(a - b) <= 2

\* A field the record holds a value for (a field that is undefined is left
\* out of the record, as JSON.stringify leaves it out).
Has(t, field) == field \in DOMAIN t

\* The callback of existingForFile.some(...) when it returns.  With a line
\* number undefined the difference is NaN, and NaN <= 2 is false.
MatchesExisting(existing, semanticTodo) ==
    /\ Has(existing, "content") /\ Has(semanticTodo, "content")
    /\ \/ normalizeContent(existing.content) = normalizeContent(semanticTodo.content)
       \/ /\ Has(existing, "lineNumber") /\ Has(semanticTodo, "lineNumber")
          /\ WithinLines(existing.lineNumber, semanticTodo.lineNumber)
          /\ AboveThreshold(calculateSimilarity(existing.content, semanticTodo.content))

\* The callback throws: normalizeContent(undefined) is a TypeError.
CallbackThrows(existing, semanticTodo) ==
    ~Has(existing, "content") \/ ~Has(semanticTodo, "content")

ComparedWithBatch(existingForFile, newTodos) == existingForFile \o newTodos

\* The records a candidate is compared with: those stored for the file when
\* the call began.
Compared(existingForFile, newTodos) == existingForFile

\* A comparison with the scanned records only.
isDuplicateOfScanned(existingForFile, newTodos, semanticTodo) ==
    \E k \in 1..Len(existingForFile) :
        /\ existingForFile[k].source = Regex
        /\ MatchesExisting(existingForFile[k], semanticTodo)

isDuplicate(existingForFile, newTodos, semanticTodo) ==
    LET against == Compared(existingForFile, newTodos)
    IN  \E k \in 1..Len(against) : MatchesExisting(against[k], semanticTodo)

\* existingForFile.some(...) throws: the callback throws on a record before
\* it has returned true on an earlier one.
someThrows(existingForFile, newTodos, semanticTodo) ==
    LET against == Compared(existingForFile, newTodos)
    IN  \E k \in 1..Len(against) :
            /\ CallbackThrows(against[k], semanticTodo)
            /\ \A j \in 1..(k - 1) : ~MatchesExisting(against[j], semanticTodo)

\* A loop that counts a skipped candidate as added too.
RECURSIVE mergeLoopCountingSkipped(_, _, _)
mergeLoopCountingSkipped(existingForFile, semanticTodos, acc) ==
    IF semanticTodos = <<>> THEN acc
    ELSE LET semanticTodo == Head(semanticTodos)
         IN  mergeLoopCountingSkipped(existingForFile, Tail(semanticTodos),
                 IF isDuplicate(existingForFile, acc.newTodos, semanticTodo)
                 THEN [acc EXCEPT !.skipped = @ + 1, !.added = @ + 1,
                                  !.dups = Append(@, TRUE)]
                 ELSE [acc EXCEPT !.newTodos = Append(@, semanticTodo),
                                  !.added = @ + 1,
                                  !.dups = Append(@, FALSE)])

\* The loop over semanticTodos: the accepted candidates, the counters and,
\* per candidate, what isDuplicate answered.
RECURSIVE mergeLoop(_, _, _)
mergeLoop(existingForFile, semanticTodos, acc) ==
    IF semanticTodos = <<>> THEN acc
    ELSE LET semanticTodo == Head(semanticTodos)
             dup == isDuplicate(existingForFile, acc.newTodos, semanticTodo)
         IN  IF someThrows(existingForFile, acc.newTodos, semanticTodo)
             THEN [acc EXCEPT !.threw = TRUE]
             ELSE
             mergeLoop(existingForFile, Tail(semanticTodos),
                 IF dup
                 THEN [acc EXCEPT !.skipped = @ + 1, !.dups = Append(@, TRUE)]
                 ELSE [acc EXCEPT !.newTodos = Append(@, semanticTodo),
                                  !.added = @ + 1,
                                  !.dups = Append(@, FALSE)])

MergedReplacingFile(todos, filePath, newTodos) ==
    SelectSeq(todos, LAMBDA t : t.filePath # filePath) \o newTodos

\* const updated = [...todos, ...newTodos]
Merged(todos, filePath, newTodos) == todos \o newTodos

\* mergeSemanticTodos on the collection `todos`: the collection afterwards,
\* whether saveTodos was called, and the result; or that it threw (in the
\* loop, before anything is saved).
mergeSemanticTodos(todos, filePath, semanticTodos) ==
    LET existingForFile == SelectSeq(todos, LAMBDA t : t.filePath = filePath)
        r == mergeLoop(existingForFile, semanticTodos,
                       [newTodos |-> <<>>, added |-> 0, skipped |-> 0, dups |-> <<>>,
                        threw |-> FALSE])
        saves == ~r.threw /\ Len(r.newTodos) > 0
    IN  [todos   |-> IF saves THEN Merged(todos, filePath, r.newTodos) ELSE todos,
         saved   |-> saves,
         added   |-> r.added,
         skipped |-> r.skipped,
         dups    |-> r.dups,
         threw   |-> r.threw]

\* An update that drops the records of every file.
updateTodosByFileDroppingAll(todos, filePath, newTodos) == newTodos

\* An update that keeps the file's records of before.
updateTodosByFileKeeping(todos, filePath, newTodos) == todos \o newTodos

updateTodosByFile(todos, filePath, newTodos) ==
    SelectSeq(todos, LAMBDA t : t.filePath # filePath) \o newTodos

\* An index that falls back on the first record.
findIndexOrFirst(todos, todoId) ==
    IF \E i \in 1..Len(todos) : todos[i].id = todoId
    THEN CHOOSE i \in 1..Len(todos) :
             /\ todos[i].id = todoId
             /\ \A k \in 1..(i - 1) : todos[k].id # todoId
    ELSE IF todos = <<>> THEN 0 ELSE 1

\* todos.findIndex(t => t.id === todoId): the first such index, or 0 for -1.
findIndex(todos, todoId) ==
    IF \E i \in 1..Len(todos) : todos[i].id = todoId
    THEN CHOOSE i \in 1..Len(todos) :
             /\ todos[i].id = todoId
             /\ \A k \in 1..(i - 1) : todos[k].id # todoId
    ELSE 0

\* A spread in which `updates` comes last.
SpreadUpdatesLast(item, updates, at) ==
    [f \in DOMAIN item |->
        IF f \in DOMAIN updates THEN updates[f]
        ELSE IF f = "updatedAt" THEN at
        ELSE item[f]]

\* A spread that stamps createdAt.
SpreadStampingCreatedAt(item, updates, at) ==
    [f \in DOMAIN item |->
        IF f = "createdAt" THEN at
        ELSE IF f \in DOMAIN updates THEN updates[f]
        ELSE item[f]]

\* { ...todos[index], ...updates, updatedAt: Date.now() }; `updates` is a
\* function from some of the item's field names to their new values.
Spread(item, updates, at) ==
    [f \in DOMAIN item |->
        IF f = "updatedAt" THEN at
        ELSE IF f \in DOMAIN updates THEN updates[f]
        ELSE item[f]]

updateTodo(todos, todoId, updates, at) ==
    LET index == findIndex(todos, todoId)
    IN  IF index = 0
        THEN [todos |-> todos, saved |-> FALSE, ret |-> FALSE]
        ELSE [todos |-> [todos EXCEPT ![index] = Spread(todos[index], updates, at)],
              saved |-> TRUE, ret |-> TRUE]

deleteTodo(todos, todoId) ==
    LET filtered == SelectSeq(todos, LAMBDA t : t.id # todoId)
    IN  IF Len(filtered) = Len(todos)
        THEN [todos |-> todos, saved |-> FALSE, ret |-> FALSE]
        ELSE [todos |-> filtered, saved |-> TRUE, ret |-> TRUE]

clearAll == <<>>

\* todos.filter(t => t.filePath === filePath)
getTodosForFile(todos, filePath) == SelectSeq(todos, LAMBDA t : t.filePath = filePath)

\* A sort that leaves the array as it is.
sortLeavingOrder(todos) == todos

\* todos.sort((a, b) => a.lineNumber - b.lineNumber): Array.prototype.sort is
\* stable, so records of one line keep their order.
RECURSIVE sort(_)
sort(todos) ==
    IF todos = <<>> THEN <<>>
    ELSE LET last == todos[Len(todos)]
             front == sort(SubSeq(todos, 1, Len(todos) - 1))
         IN  SelectSeq(front, LAMBDA t : t.lineNumber <= last.lineNumber)
                 \o <<last>>
                 \o SelectSeq(front, LAMBDA t : t.lineNumber > last.lineNumber)

\* filePath.split(/[/\\]/): the pieces between the separators.
RECURSIVE splitPath(_, _)
splitPath(s, piece) ==
    IF s = <<>> THEN <<piece>>
    ELSE IF Head(s) \in {"/", "\\"}
         THEN <<piece>> \o splitPath(Tail(s), <<>>)
         ELSE splitPath(Tail(s), Append(piece, Head(s)))

\* getFileName on the characters of a path.
getFileName(filePath) ==
    LET parts == splitPath(filePath, <<>>)
    IN  IF parts[Len(parts)] # <<>> THEN parts[Len(parts)] ELSE filePath

\* The keys of the Map `groups`, in the order of their insertion.
RECURSIVE groupKeys(_, _)
groupKeys(todos, keys) ==
    IF todos = <<>> THEN keys
    ELSE groupKeys(Tail(todos),
                   IF \E k \in 1..Len(keys) : keys[k] = Head(todos).filePath
                   THEN keys ELSE Append(keys, Head(todos).filePath))

\* getTodosByGroup; `characters` gives the characters of a path.
getTodosByGroup(todos, characters) ==
    LET keys == groupKeys(todos, <<>>)
    IN  [k \in 1..Len(keys) |->
            [filePath |-> keys[k],
             fileName |-> getFileName(characters[keys[k]]),
             todos |-> sort(SelectSeq(todos, LAMBDA t : t.filePath = keys[k]))]]

(***************************************************************************)
(* TodoParser                                                              *)
(***************************************************************************)

\* s.split(sep) for a one-character separator.
RECURSIVE splitOn(_, _, _)
splitOn(s, sep, piece) ==
    IF s = <<>> THEN <<piece>>
    ELSE IF Head(s) = sep
         THEN <<piece>> \o splitOn(Tail(s), sep, <<>>)
         ELSE splitOn(Tail(s), sep, Append(piece, Head(s)))

\* Whether the pattern (in lower case) is at position i of s, letter case
\* ignored (the regular expressions carry the i flag).
MatchesAt(s, i, pattern) ==
    /\ i + Len(pattern) - 1 <= Len(s)
    /\ \A k \in 1..Len(pattern) : LowerChar(s[i + k - 1]) = pattern[k]

\* /PREFIX\s*(.+)/i for the alternatives of PREFIX: the leftmost place where
\* one of them stands with at least one character after it, and group 1.
\* \s* is greedy and (.+) takes the rest; when only white space follows the
\* prefix, \s* gives one character back to (.+).
PrefixMatch(s, patterns) ==
    LET starts == {i \in 1..Len(s) :
                      \E p \in patterns : MatchesAt(s, i, p) /\ i + Len(p) - 1 < Len(s)}
    IN  IF starts = {} THEN [found |-> FALSE, group |-> <<>>]
        ELSE LET i == CHOOSE x \in starts : \A y \in starts : x <= y
                 p == CHOOSE q \in patterns :
                          MatchesAt(s, i, q) /\ i + Len(q) - 1 < Len(s)
                 rest == SubSeq(s, i + Len(p), Len(s))
             IN  [found |-> TRUE,
                  group |-> IF trimStart(rest) = <<>>
                            THEN <<rest[Len(rest)]>>
                            ELSE trimStart(rest)]

\* /^[-*]\s+\[([ x~])\]\s+(.+)$/i.  Both \s+ are greedy; when only white space
\* follows the box, the second gives its last character back to (.+).
MarkdownMatch(s) ==
    LET afterBullet == IF s = <<>> THEN <<>> ELSE Tail(s)
        box == trimStart(afterBullet)
        afterBox == IF Len(box) >= 3 THEN SubSeq(box, 4, Len(box)) ELSE <<>>
        text == IF trimStart(afterBox) = <<>> /\ Len(afterBox) >= 2
                THEN <<afterBox[Len(afterBox)]>>
                ELSE trimStart(afterBox)
    IN  IF /\ s # <<>>
           /\ Head(s) \in {"-", "*"}
           /\ Len(box) < Len(afterBullet)
           /\ Len(box) >= 3
           /\ box[1] = "["
           /\ LowerChar(box[2]) \in {" ", "x", "~"}
           /\ box[3] = "]"
           /\ Len(text) < Len(afterBox)
           /\ text # <<>>
        THEN [found |-> TRUE, mark |-> box[2], group |-> text]
        ELSE [found |-> FALSE, mark |-> " ", group |-> <<>>]

\* A mapping that takes the letter as it is written.
parseStatusAsWritten(char) ==
    CASE char = "x" -> Completed
      [] char = "~" -> InProgress
      [] OTHER -> Pending

parseStatus(char) ==
    CASE LowerChar(char) = "x" -> Completed
      [] LowerChar(char) = "~" -> InProgress
      [] OTHER -> Pending

\* contextLines.join(' | ')
RECURSIVE join(_)
join(parts) ==
    IF parts = <<>> THEN <<>>
    ELSE IF Len(parts) = 1 THEN parts[1]
    ELSE parts[1] \o <<" ", "|", " ">> \o join(Tail(parts))

Max(a, b) == IF a > b THEN a ELSE b

Min(a, b) == IF a < b THEN a ELSE b

\* currentIndex is zero-based, as in the code.
getContext(allLines, currentIndex) ==
    LET start == Max(0, currentIndex - 1)
        end == Min(Len(allLines), currentIndex + 2)
        idx == SelectSeq([k \in 1..(end - start) |-> start + k - 1],
                         LAMBDA i : i # currentIndex /\ trim(allLines[i + 1]) # <<>>)
    IN  join([k \in 1..Len(idx) |-> trim(allLines[idx[k] + 1])])

\* `${filePath}:${lineNumber}:${now}`, kept as its three parts: the parts
\* after the path are numbers, so the text determines them.
RegexId(filePath, lineNumber, at) == <<filePath, lineNumber, at>>

createTodoItem(filePath, content, status, lineNumber, context, at) ==
    TodoItem(RegexId(filePath, lineNumber, at), content, status, filePath,
             lineNumber, at, context, Regex, Undefined)

NoTodo == <<>>

\* parseLine: <<the item>> or NoTodo (null).
parseLine(filePath, line, lineNumber, allLines, at) ==
    LET trimmedLine == trim(line)
        markdownMatch == MarkdownMatch(trimmedLine)
        todoMatch == PrefixMatch(trimmedLine, {<<"t", "o", "d", "o", ":">>})
        doneMatch == PrefixMatch(trimmedLine, {<<"d", "o", "n", "e", ":">>})
        inProgressMatch ==
            PrefixMatch(trimmedLine,
                {<<"i", "n", "p", "r", "o", "g", "r", "e", "s", "s", ":">>,
                 <<"i", "n", "-", "p", "r", "o", "g", "r", "e", "s", "s", ":">>,
                 <<"i", "n", " ", "p", "r", "o", "g", "r", "e", "s", "s", ":">>})
        context == getContext(allLines, lineNumber - 1)
    IN  IF markdownMatch.found
        THEN <<createTodoItem(filePath, trim(markdownMatch.group),
                              parseStatus(markdownMatch.mark), lineNumber, context, at)>>
        ELSE IF todoMatch.found
        THEN <<createTodoItem(filePath, trim(todoMatch.group), Pending,
                              lineNumber, context, at)>>
        ELSE IF doneMatch.found
        THEN <<createTodoItem(filePath, trim(doneMatch.group), Completed,
                              lineNumber, context, at)>>
        ELSE IF inProgressMatch.found
        THEN <<createTodoItem(filePath, trim(inProgressMatch.group), InProgress,
                              lineNumber, context, at)>>
        ELSE NoTodo

RECURSIVE parseLines(_, _, _, _)
parseLines(filePath, lines, index, at) ==
    IF index > Len(lines) THEN <<>>
    ELSE parseLine(filePath, lines[index], index, lines, at)
             \o parseLines(filePath, lines, index + 1, at)

\* The clock is read once per item; the whole call runs within one reading.
parseTodos(filePath, content, at) ==
    parseLines(filePath, splitOn(content, "\n", <<>>), 1, at)

(***************************************************************************)
(* LLMService                                                              *)
(***************************************************************************)

\* `${filePath}:semantic:${result.lineNumber}:${now}:${index}`, kept as its
\* parts; index is zero-based.
SemanticId(filePath, lineNumber, at, index) ==
    <<filePath, "semantic", lineNumber, at, index>>

\* result[field], or undefined when the provider's element has no such field.
Get(result, field) == IF Has(result, field) THEN result[field] ELSE Undefined

\* response.todos.map(...): content and lineNumber are copied as they are,
\* undefined when the element lacks them.
parseResponse(response, filePath, at) ==
    [k \in 1..Len(response.todos) |->
        LET result == response.todos[k]
            item == TodoItem(
                SemanticId(filePath, Get(result, "lineNumber"), at, k - 1),
                Get(result, "content"), Pending, filePath,
                Get(result, "lineNumber"), at,
                result.reasoning, Semantic, result.confidence)
        IN  [f \in {g \in DOMAIN item :
                        g \in {"content", "lineNumber"} => Has(result, g)} |->
                item[f]]]

\* One element of the provider's `todos` array.
SemanticTodoResult(content, lineNumber) ==
    [content |-> content, lineNumber |-> lineNumber,
     confidence |-> "high", reasoning |-> <<>>]

\* The error callOpenAI throws, by its statusCode.
LLMError(statusCode) == [name |-> "LLMError", statusCode |-> statusCode]

TypeError == [name |-> "TypeError", statusCode |-> -1]

\* What the provider does with one request.
ReplyHttp(status) == [kind |-> "http", status |-> status, todos |-> <<>>]
ReplyAbort == [kind |-> "abort", status |-> 0, todos |-> <<>>]
ReplyNetwork == [kind |-> "network", status |-> 0, todos |-> <<>>]
ReplyEmpty == [kind |-> "empty", status |-> 200, todos |-> <<>>]
ReplyNotJson == [kind |-> "not-json", status |-> 200, todos |-> <<>>]
ReplyNotArray == [kind |-> "todos-not-array", status |-> 200, todos |-> <<>>]
ReplyTodos(response) == [kind |-> "json", status |-> 200, todos |-> response.todos]
\* JSON content that has no `todos` field.
ReplyNoTodos == [kind |-> "no-todos", status |-> 200, todos |-> <<>>]
\* JSON content whose first element has no `content`, or no `lineNumber`.
ReplyNoContent(response) ==
    [kind |-> "no-content", status |-> 200, todos |-> response.todos]
ReplyNoLineNumber(response) ==
    [kind |-> "no-lineNumber", status |-> 200, todos |-> response.todos]

\* callOpenAI: the response it returns or the error it throws.
callOpenAI(reply) ==
    CASE reply.kind = "abort" ->
            [threw |-> TRUE, error |-> LLMError(408), todos |-> <<>>, isArray |-> TRUE]
      [] reply.kind = "network" ->
            [threw |-> TRUE, error |-> LLMError(0), todos |-> <<>>, isArray |-> TRUE]
      [] reply.kind = "http" ->
            [threw |-> TRUE, error |-> LLMError(reply.status), todos |-> <<>>,
             isArray |-> TRUE]
      [] reply.kind = "empty" ->
            [threw |-> TRUE, error |-> LLMError(500), todos |-> <<>>, isArray |-> TRUE]
      [] reply.kind = "not-json" ->
            [threw |-> TRUE, error |-> LLMError(0), todos |-> <<>>, isArray |-> TRUE]
      [] reply.kind = "todos-not-array" ->
            [threw |-> FALSE, error |-> LLMError(0), todos |-> <<>>, isArray |-> FALSE]
      [] reply.kind = "no-todos" ->
            [threw |-> FALSE, error |-> LLMError(0), todos |-> <<>>, isArray |-> TRUE]
      [] OTHER ->
            [threw |-> FALSE, error |-> LLMError(0), todos |-> reply.todos,
             isArray |-> TRUE]

\* semanticScan after the key was read: callOpenAI, then parseResponse, whose
\* response.todos.map throws a TypeError when todos is no array.
semanticScan(reply, filePath, at) ==
    LET response == callOpenAI(reply)
    IN  IF response.threw
        THEN [threw |-> TRUE, error |-> response.error, semanticTodos |-> <<>>]
        ELSE IF ~response.isArray
        THEN [threw |-> TRUE, error |-> TypeError, semanticTodos |-> <<>>]
        ELSE [threw |-> FALSE, error |-> response.error,
              semanticTodos |-> parseResponse(response, filePath, at)]

NoMessage == "none"

handleLLMErrorSilentDefault(error) ==
    IF error.name = "LLMError"
    THEN CASE error.statusCode = 401 -> "error: Invalid API key. Please reconfigure."
           [] error.statusCode = 429 -> "error: Rate limit exceeded."
           [] error.statusCode = 408 -> "error: Request timeout."
           [] OTHER -> NoMessage
    ELSE "error: Unexpected error"

\* handleLLMError: the message it shows.
handleLLMError(error) ==
    IF error.name = "LLMError"
    THEN CASE error.statusCode = 401 -> "error: Invalid API key. Please reconfigure."
           [] error.statusCode = 429 -> "error: Rate limit exceeded."
           [] error.statusCode = 408 -> "error: Request timeout."
           [] OTHER -> "error: API Error"
    ELSE "error: Unexpected error"

ErrorMessages ==
    {"error: Invalid API key. Please reconfigure.", "error: Rate limit exceeded.",
     "error: Request timeout.", "error: API Error", "error: Unexpected error"}

(***************************************************************************)
(* Inputs                                                                  *)
(***************************************************************************)

FileA == "/notes/a.md"
FileB == "/notes/b.md"
Files == {FileA, FileB}

\* Texts whose word sets make the similarity 1, 5/6, 4/5 and 4/6.
Text5 == <<"a", " ", "b", " ", "c", " ", "d", " ", "e">>
Text5Spaced == <<"A", " ", " ", "b", "\t", "c", " ", "D", " ", "e", " ">>
Text6 == <<"a", " ", "b", " ", "c", " ", "d", " ", "e", " ", "f">>
Text4 == <<"a", " ", "b", " ", "c", " ", "d">>

MaxExisting == 2
MaxBatch == 2

ExistingTexts == {Text5, Text4}
CandidateTexts == {Text5Spaced, Text6, Text4}
CandidateLines == {3, 4}

SeqsUpTo(S, n) == UNION {[1..k -> S] : k \in 0..n}

\* Collections as scans leave them at time 0: the k-th record is on line k.
ExistingStores ==
    {[k \in 1..Len(choice) |->
          createTodoItem(choice[k][1], choice[k][2], Pending, k, <<>>, 0)] :
        choice \in SeqsUpTo(Files \X ExistingTexts, MaxExisting)}

Responses ==
    {[todos |-> [k \in 1..Len(choice) |->
                    SemanticTodoResult(choice[k][1], choice[k][2])]] :
        choice \in SeqsUpTo(CandidateTexts \X CandidateLines, MaxBatch)}

NoCall == [op |-> "none"]

\* private readonly debounceDelay = 500
debounceDelay == 500

\* debounceTimer while no timer is armed.
NoTimer == [armed |-> FALSE, uri |-> Undefined, due |-> 0]

\* A file no change was notified for.
NotNotified == [at |-> 0, pending |-> FALSE]

(***************************************************************************)
(* SpecMerge: mergeSemanticTodos called once on a stored collection        *)
(***************************************************************************)

Idle ==
    /\ persisted = store
    /\ disk = [f \in Files |-> 0]
    /\ pendingDelete = {}
    /\ debounceTimer = NoTimer
    /\ notified = [f \in Files |-> NotNotified]
    /\ tasks = <<>>
    /\ scanQueue = <<>>
    /\ scans = <<>>
    /\ apiKey = FALSE
    /\ events = 0
    /\ serial = store
    /\ call = NoCall
    /\ disposed = FALSE

InitMerge ==
    /\ store \in ExistingStores
    /\ now = 1
    /\ Idle

MergeCall(filePath, response) ==
    LET semanticTodos == parseResponse(response, filePath, now)
        r == mergeSemanticTodos(store, filePath, semanticTodos)
    IN  /\ call = NoCall
        /\ store' = r.todos
        /\ persisted' = r.todos
        /\ serial' = r.todos
        /\ call' = [op |-> "mergeSemanticTodos", filePath |-> filePath,
                    semanticTodos |-> semanticTodos, before |-> store,
                    saved |-> r.saved, added |-> r.added, skipped |-> r.skipped]
        /\ UNCHANGED <<now, disk, pendingDelete, debounceTimer, tasks, scanQueue,
                       scans, apiKey, events, notified, disposed>>

NextMerge == \E filePath \in Files, response \in Responses : MergeCall(filePath, response)

SpecMerge == InitMerge /\ [][NextMerge]_vars

(***************************************************************************)
(* SpecView: the views getTodosByGroup and getTodosForFile, called on a    *)
(* stored collection or after a merge into it                              *)
(***************************************************************************)

\* The characters of the paths.
Characters ==
    (FileA :> <<"/", "n", "o", "t", "e", "s", "/", "a", ".", "m", "d">>)
        @@ (FileB :> <<"/", "n", "o", "t", "e", "s", "/", "b", ".", "m", "d">>)

\* TodoPanel._update: getTodosByGroup.  The groups are arrays of their own,
\* so sorting them leaves the stored array as it is.
GroupCall ==
    /\ call.op \in {"none", "mergeSemanticTodos"}
    /\ call' = [op |-> "getTodosByGroup", before |-> store,
                groups |-> getTodosByGroup(store, Characters)]
    /\ UNCHANGED <<store, persisted, now, disk, pendingDelete, debounceTimer, tasks,
                   scanQueue, scans, apiKey, events, serial, notified, disposed>>

ForFileCall(filePath) ==
    /\ call.op \in {"none", "mergeSemanticTodos"}
    /\ call' = [op |-> "getTodosForFile", before |-> store, filePath |-> filePath,
                todos |-> getTodosForFile(store, filePath)]
    /\ UNCHANGED <<store, persisted, now, disk, pendingDelete, debounceTimer, tasks,
                   scanQueue, scans, apiKey, events, serial, notified, disposed>>

NextView ==
    \/ \E filePath \in Files, response \in Responses : MergeCall(filePath, response)
    \/ GroupCall
    \/ \E filePath \in Files : ForFileCall(filePath)

SpecView == InitMerge /\ [][NextView]_vars

(***************************************************************************)
(* SpecUpdate: updateTodo and deleteTodo called once on a stored collection *)
(***************************************************************************)

\* The ids a caller may hold: those scans gave at time 0, stored or not (the
\* panel may show a record that has been replaced since).
CallerIds == {RegexId(filePath, k, 0) : filePath \in Files, k \in 1..(MaxExisting + 1)}

\* The partial records passed as `updates`.
Updates ==
    {[status |-> Completed],
     [status |-> InProgress, lineNumber |-> 7],
     [content |-> Text6, updatedAt |-> 0]}

UpdateCall(todoId, updates) ==
    LET r == updateTodo(store, todoId, updates, now)
    IN  /\ call = NoCall
        /\ store' = r.todos
        /\ persisted' = r.todos
        /\ serial' = r.todos
        /\ call' = [op |-> "updateTodo", todoId |-> todoId, updates |-> updates,
                    before |-> store, saved |-> r.saved, ret |-> r.ret]
        /\ UNCHANGED <<now, disk, pendingDelete, debounceTimer, tasks, scanQueue,
                       scans, apiKey, events, notified, disposed>>

DeleteCall(todoId) ==
    LET r == deleteTodo(store, todoId)
    IN  /\ call = NoCall
        /\ store' = r.todos
        /\ persisted' = r.todos
        /\ serial' = r.todos
        /\ call' = [op |-> "deleteTodo", todoId |-> todoId,
                    before |-> store, saved |-> r.saved, ret |-> r.ret]
        /\ UNCHANGED <<now, disk, pendingDelete, debounceTimer, tasks, scanQueue,
                       scans, apiKey, events, notified, disposed>>

NextUpdate ==
    \/ \E todoId \in CallerIds, updates \in Updates : UpdateCall(todoId, updates)
    \/ \E todoId \in CallerIds : DeleteCall(todoId)

SpecUpdate == InitMerge /\ [][NextUpdate]_vars

(***************************************************************************)
(* SpecDelete: handleFileDelete on a stored collection or after a merge    *)
(***************************************************************************)

\* handleFileDelete(uri) as the store sees it.
DeleteFileCall(uri) ==
    /\ call.op \in {"none", "mergeSemanticTodos"}
    /\ store' = updateTodosByFile(store, uri, <<>>)
    /\ persisted' = store'
    /\ serial' = store'
    /\ call' = [op |-> "handleFileDelete", filePath |-> uri, before |-> store]
    /\ UNCHANGED <<now, disk, pendingDelete, debounceTimer, tasks, scanQueue,
                   scans, apiKey, events, notified, disposed>>

NextDelete ==
    \/ \E filePath \in Files, response \in Responses : MergeCall(filePath, response)
    \/ \E uri \in Files : DeleteFileCall(uri)

SpecDelete == InitMerge /\ [][NextDelete]_vars

(***************************************************************************)
(* SpecAgain: a merge, the deletion of what it added, and the merge of the *)
(* same candidates again                                                   *)
(***************************************************************************)

\* deleteTodo for each of the records, one after the other.
RECURSIVE deleteEach(_, _)
deleteEach(todos, records) ==
    IF records = <<>> THEN todos
    ELSE deleteEach(deleteTodo(todos, Head(records).id).todos, Tail(records))

\* Later, the records the merge added are deleted again.
UndoCall ==
    /\ call.op = "mergeSemanticTodos"
    /\ now' = now + 1
    /\ store' = deleteEach(store, SubSeq(store, Len(call.before) + 1, Len(store)))
    /\ persisted' = store'
    /\ serial' = store'
    /\ call' = [call EXCEPT !.op = "undone", !.before = store]
    /\ UNCHANGED <<disk, pendingDelete, debounceTimer, tasks, scanQueue,
                   scans, apiKey, events, notified, disposed>>

\* mergeSemanticTodos with the candidates of the first call.
MergeAgainCall ==
    LET r == mergeSemanticTodos(store, call.filePath, call.semanticTodos)
    IN  /\ call.op = "undone"
        /\ store' = r.todos
        /\ persisted' = r.todos
        /\ serial' = r.todos
        /\ call' = [op |-> "mergedAgain", filePath |-> call.filePath,
                    semanticTodos |-> call.semanticTodos, existing |-> store,
                    first |-> [todos |-> call.before, added |-> call.added,
                               skipped |-> call.skipped],
                    added |-> r.added, skipped |-> r.skipped]
        /\ UNCHANGED <<now, disk, pendingDelete, debounceTimer, tasks, scanQueue,
                       scans, apiKey, events, notified, disposed>>

NextAgain ==
    \/ \E filePath \in Files, response \in Responses : MergeCall(filePath, response)
    \/ UndoCall
    \/ MergeAgainCall

SpecAgain == InitMerge /\ [][NextAgain]_vars

(***************************************************************************)
(* SpecRepeat: a merge, and at once the merge of the same candidates again *)
(***************************************************************************)

\* mergeSemanticTodos with the candidates of the call before, on the store as
\* that call left it.
MergeRepeatCall ==
    LET r == mergeSemanticTodos(store, call.filePath, call.semanticTodos)
    IN  /\ call.op = "mergeSemanticTodos"
        /\ store' = r.todos
        /\ persisted' = r.todos
        /\ serial' = r.todos
        /\ call' = [op |-> "mergedTwice", filePath |-> call.filePath,
                    semanticTodos |-> call.semanticTodos, before |-> store,
                    first |-> [added |-> call.added, skipped |-> call.skipped],
                    saved |-> r.saved, added |-> r.added, skipped |-> r.skipped]
        /\ UNCHANGED <<now, disk, pendingDelete, debounceTimer, tasks, scanQueue,
                       scans, apiKey, events, notified, disposed>>

NextRepeat ==
    \/ \E filePath \in Files, response \in Responses : MergeCall(filePath, response)
    \/ MergeRepeatCall

SpecRepeat == InitMerge /\ [][NextRepeat]_vars

(***************************************************************************)
(* SpecLine: parseLine called once on a line                               *)
(***************************************************************************)

MaxGap == 2

\* The white space between the parts of a line: up to MaxGap spaces, or a tab.
Gaps == {[k \in 1..n |-> " "] : n \in 0..MaxGap} \cup {<<"\t">>}

Bullets == {<<>>, <<"-">>, <<"*">>}

Boxes == {<<>>,
         <<"[", "x", "]">>,
         <<"[", "X", "]">>,
         <<"[", "~", "]">>,
         <<"[", " ", "]">>,
         <<"[", "y", "]">>}

\* What follows the box, or makes up a line without one.
LineRests ==
    {<<>>,
     <<"a">>,
     <<"T", "O", "D", "O", ":">>,
     <<"T", "O", "D", "O", ":", " ", "a">>,
     <<"t", "o", "d", "o", ":", "a">>,
     <<"a", " ", "D", "O", "N", "E", ":", " ", "b">>,
     <<"D", "O", "N", "E", ":", " ", "T", "O", "D", "O", ":">>,
     <<"D", "O", "N", "E", ":", " ", "b", " ", "T", "O", "D", "O", ":", " ", "a">>,
     <<"T", "O", "D", "O", ":", " ", "a", " ", "D", "O", "N", "E", ":", " ", "b">>,
     <<"I", "N", " ", "P", "R", "O", "G", "R", "E", "S", "S", ":", " ", "a">>,
     <<"i", "n", "-", "p", "r", "o", "g", "r", "e", "s", "s", ":", " ", "a">>,
     <<"I", "N", "P", "R", "O", "G", "R", "E", "S", "S", ":", " ", "a">>,
     <<"I", "N", " ", " ", "P", "R", "O", "G", "R", "E", "S", "S", ":", " ", "a">>,
     <<"I", "N", " ", "P", "R", "O", "G", "R", "E", "S", "S", ":", " ", "a", " ", "D", "O", "N", "E", ":", " ", "b">>}

\* The lines: white space, a bullet, a gap, a box, a gap, the rest and white
\* space, each of which may be missing.
Lines ==
    {lead \o bullet \o gap1 \o box \o gap2 \o rest \o trail :
        lead \in {<<>>, <<" ">>}, bullet \in Bullets, gap1 \in Gaps, box \in Boxes,
        gap2 \in Gaps, rest \in LineRests, trail \in {<<>>, <<" ">>}}

InitLine ==
    /\ store = <<>>
    /\ now = 1
    /\ Idle

\* parseLine on the only line of a document.
ParseLineCall(line) ==
    /\ call = NoCall
    /\ call' = [op |-> "parseLine", line |-> line,
                result |-> parseLine(FileA, line, 1, <<line>>, now)]
    /\ UNCHANGED <<store, persisted, now, disk, pendingDelete, debounceTimer, tasks,
                   scanQueue, scans, apiKey, events, serial, notified, disposed>>

NextLine == \E line \in Lines : ParseLineCall(line)

SpecLine == InitLine /\ [][NextLine]_vars

(***************************************************************************)
(* SpecSimilarity: calculateSimilarity called once on two texts            *)
(***************************************************************************)

SimilarityTexts ==
    {<<>>,
     <<" ", " ">>,
     <<"F", "i", "x", " ", "t", "h", "e", " ", "b", "u", "g">>,
     <<"f", "i", "x", " ", " ", " ", "T", "H", "E", " ", "b", "u", "g">>,
     <<"F", "i", "x", " ", "t", "h", "e", " ", "l", "o", "g", "i", "n", " ", "b", "u", "g">>,
     <<" ", "f", "i", "x", "\t", "t", "h", "e", " ", "b", "u", "g", " ">>,
     <<"b", "u", "g", " ", "t", "h", "e", " ", "f", "i", "x">>,
     <<"f", "i", "x", " ", "f", "i", "x", " ", "t", "h", "e", " ", "b", "u", "g">>,
     <<"a">>,
     <<"a", " ", "b", " ", "c", " ", "d", " ", "e">>,
     <<"a", " ", "b", " ", "c", " ", "d", " ", "e", " ", "f">>,
     <<"t", "h", "e">>}

\* calculateSimilarity(a, b), and with its arguments exchanged.
SimilarityCall(a, b) ==
    /\ call = NoCall
    /\ call' = [op |-> "calculateSimilarity", a |-> a, b |-> b,
                result |-> calculateSimilarity(a, b),
                exchanged |-> calculateSimilarity(b, a)]
    /\ UNCHANGED <<store, persisted, now, disk, pendingDelete, debounceTimer, tasks,
                   scanQueue, scans, apiKey, events, serial, notified, disposed>>

NextSimilarity == \E a \in SimilarityTexts, b \in SimilarityTexts : SimilarityCall(a, b)

SpecSimilarity == InitLine /\ [][NextSimilarity]_vars

(***************************************************************************)
(* SpecScan: one scan (parseTodos, then updateTodosByFile) of a text       *)
(***************************************************************************)

MaxLines == 3

\* The lines a scanned text is made of: two marker lines, a plain line and
\* an empty one.
LineTexts ==
    {<<"T", "O", "D", "O", ":", " ", "a">>, <<"-", " ", "[", "x", "]", " ", "b">>,
     <<"n">>, <<>>}

\* The text whose lines are `lines`.
RECURSIVE Unsplit(_)
Unsplit(lines) ==
    IF Len(lines) = 1 THEN lines[1]
    ELSE lines[1] \o <<"\n">> \o Unsplit(Tail(lines))

ScanTexts ==
    {Unsplit(lines) : lines \in UNION {[1..k -> LineTexts] : k \in 1..MaxLines}}

\* parseAndUpdate with the document's text at hand.
ScanCall(filePath, content) ==
    /\ call = NoCall
    /\ store' = updateTodosByFile(store, filePath, parseTodos(filePath, content, now))
    /\ persisted' = store'
    /\ serial' = store'
    /\ call' = [op |-> "scan", filePath |-> filePath, content |-> content,
                before |-> store]
    /\ UNCHANGED <<now, disk, pendingDelete, debounceTimer, tasks, scanQueue,
                   scans, apiKey, events, notified, disposed>>

NextScan == \E filePath \in Files, content \in ScanTexts : ScanCall(filePath, content)

SpecScan == InitMerge /\ [][NextScan]_vars

(***************************************************************************)
(* The extension: FileWatcher, the commands and the store they share       *)
(***************************************************************************)

MaxTime == 1
MaxEvents == 2

\* The texts a note file can hold.
DocTodo == <<"T", "O", "D", "O", ":", " ", "a">>
DocBox == <<"n", "\n", "-", " ", "[", "x", "]", " ", "b">>
Docs == <<DocTodo, DocBox>>

\* disk[f] for a file that cannot be opened (deleted or unreadable).
Unreadable == 0

\* The callers of parseAndUpdate: the scanAllFiles loop, the debounce
\* callback and refreshCurrentFile.
Origins == {"scanAllFiles", "debounce", "refreshCurrentFile"}

ScanIds == {1, 2}

IdleTask == [pc |-> "idle", uri |-> Undefined]

\* An invocation slot at rest: how the last invocation ended (the provider's
\* answer, the calls of mergeSemanticTodos, the message shown).
IdleScan(reply, merges, shown) ==
    [pc |-> "idle", filePath |-> Undefined, sentAt |-> 0, requests |-> 0,
     reply |-> reply, merges |-> merges, shown |-> shown]

\* What the provider may answer in this specification.
SpecReplies ==
    {ReplyHttp(429),
     ReplyTodos([todos |-> <<>>]),
     ReplyTodos([todos |-> <<SemanticTodoResult(<<"p">>, 1)>>]),
     ReplyTodos([todos |-> <<SemanticTodoResult(<<"q">>, 1)>>])}

Ids(todos) == {todos[k].id : k \in 1..Len(todos)}

\* An id no record was ever given.
UnknownId == RegexId(FileA, 0, 0)

getTodosPersisted == persisted

\* getTodos: globalState.get answers from the extension host's copy, which
\* globalState.update replaces before it returns its promise.
getTodos == store

Init ==
    /\ store = <<>>
    /\ persisted = <<>>
    /\ now = 0
    /\ disk = [f \in Files |-> IF f = FileA THEN 1 ELSE 2]
    /\ pendingDelete = {}
    /\ debounceTimer = NoTimer
    /\ notified = [f \in Files |-> NotNotified]
    /\ tasks = [o \in Origins |-> IdleTask]
    /\ scanQueue = <<FileA, FileB>>
    /\ scans = [i \in ScanIds |-> IdleScan("none", 0, NoMessage)]
    /\ apiKey \in BOOLEAN
    /\ events = 0
    /\ serial = <<>>
    /\ call = NoCall
    /\ disposed = FALSE

Event ==
    /\ events < MaxEvents
    /\ events' = events + 1

\* Date.now() moves on.
Tick ==
    /\ now % debounceDelay < MaxTime
    /\ now' = now + 1
    /\ UNCHANGED <<store, persisted, disk, pendingDelete, debounceTimer, tasks,
                   scanQueue, scans, apiKey, events, serial, call,
                   notified, disposed>>

\* Nothing happens until the armed timer is due.
Wait ==
    /\ debounceTimer.armed
    /\ now < debounceTimer.due
    /\ now' = debounceTimer.due
    /\ UNCHANGED <<store, persisted, disk, pendingDelete, debounceTimer, tasks,
                   scanQueue, scans, apiKey, events, serial, notified, call, disposed>>

\* globalState.update's promise resolves: the write has reached storage.
Persist ==
    /\ persisted # store
    /\ persisted' = store
    /\ UNCHANGED <<store, now, disk, pendingDelete, debounceTimer, tasks,
                   scanQueue, scans, apiKey, events, serial, call,
                   notified, disposed>>

\* handleFileChange(uri): the one timer is cleared and armed for uri.
handleFileChange(uri) ==
    /\ debounceTimer' = [armed |-> TRUE, uri |-> uri, due |-> now + debounceDelay]
    /\ notified' = [notified EXCEPT ![uri] = [at |-> now, pending |-> TRUE]]

\* A document of a note file is edited or opened: the listeners start()
\* registers on vscode.workspace, which dispose() leaves in place.
DocumentChanged(uri, doc) ==
    /\ Event
    /\ disk' = [disk EXCEPT ![uri] = doc]
    /\ handleFileChange(uri)
    /\ UNCHANGED <<store, persisted, now, pendingDelete, tasks, scanQueue, scans,
                   apiKey, serial, call, disposed>>

\* A file is created or changed on disk: the events of the file system
\* watcher, which dispose() disposes of.
FileChanged(uri, doc) ==
    /\ Event
    /\ ~disposed
    /\ disk' = [disk EXCEPT ![uri] = doc]
    /\ handleFileChange(uri)
    /\ UNCHANGED <<store, persisted, now, pendingDelete, tasks, scanQueue, scans,
                   apiKey, serial, call, disposed>>

\* A file is deleted; its onDidDelete event is delivered later.
FileDeleted(uri) ==
    /\ Event
    /\ disk[uri] # Unreadable
    /\ disk' = [disk EXCEPT ![uri] = Unreadable]
    /\ pendingDelete' = pendingDelete \cup {uri}
    /\ UNCHANGED <<store, persisted, now, debounceTimer, tasks, scanQueue, scans,
                   apiKey, serial, call,
                   notified, disposed>>

\* A file can no longer be read (no event tells the watcher).
FileUnreadable(uri) ==
    /\ Event
    /\ disk[uri] # Unreadable
    /\ disk' = [disk EXCEPT ![uri] = Unreadable]
    /\ UNCHANGED <<store, persisted, now, pendingDelete, debounceTimer, tasks,
                   scanQueue, scans, apiKey, serial, call,
                   notified, disposed>>

handleFileDelete(uri) ==
    /\ ~disposed
    /\ uri \in pendingDelete
    /\ pendingDelete' = pendingDelete \ {uri}
    /\ store' = updateTodosByFile(getTodos, uri, <<>>)
    /\ serial' = updateTodosByFile(serial, uri, <<>>)
    /\ UNCHANGED <<persisted, now, disk, debounceTimer, tasks, scanQueue, scans,
                   apiKey, events, call,
                   notified, disposed>>

StartTask(origin, uri) ==
    /\ tasks[origin].pc = "idle"
    /\ tasks' = [tasks EXCEPT ![origin] = [IdleTask EXCEPT !.pc = "open", !.uri = uri]]

\* The debounce delay has passed: the callback calls parseAndUpdate(uri).
DebounceFires ==
    /\ debounceTimer.armed
    /\ now >= debounceTimer.due
    /\ StartTask("debounce", debounceTimer.uri)
    /\ debounceTimer' = NoTimer
    /\ notified' = [notified EXCEPT ![debounceTimer.uri].pending = FALSE]
    /\ UNCHANGED <<store, persisted, now, disk, pendingDelete, scanQueue, scans,
                   apiKey, events, serial, call, disposed>>

\* scanAllFiles: the next file of the loop, once the last call has returned.
scanAllFiles ==
    /\ scanQueue # <<>>
    /\ StartTask("scanAllFiles", Head(scanQueue))
    /\ scanQueue' = Tail(scanQueue)
    /\ UNCHANGED <<store, persisted, now, disk, pendingDelete, debounceTimer, scans,
                   apiKey, events, serial, call,
                   notified, disposed>>

\* The ai-note.refresh command with `uri` in the active editor.
refreshCurrentFile(uri) ==
    /\ Event
    /\ StartTask("refreshCurrentFile", uri)
    /\ UNCHANGED <<store, persisted, now, disk, pendingDelete, debounceTimer,
                   scanQueue, scans, apiKey, serial, call,
                   notified, disposed>>

\* TodoParser.parseFile: openTextDocument answers; a failure is caught and
\* [] returned.
parseFile(uri, at) ==
    IF disk[uri] = Unreadable
    THEN [todos |-> <<>>, failed |-> TRUE]
    ELSE [todos |-> parseTodos(uri, Docs[disk[uri]], at), failed |-> FALSE]

\* parseAndUpdate once openTextDocument has answered: parseFile returns and
\* updateTodosByFile replaces the file's records.  Only promise continuations
\* lie between the two, so no timer, event or answer is handled in between.
parseAndUpdate(origin) ==
    /\ tasks[origin].pc = "open"
    /\ LET todos == parseFile(tasks[origin].uri, now).todos
       IN  /\ store' = updateTodosByFile(getTodos, tasks[origin].uri, todos)
           /\ serial' = updateTodosByFile(serial, tasks[origin].uri, todos)
    /\ tasks' = [tasks EXCEPT ![origin] = IdleTask]
    /\ UNCHANGED <<persisted, now, disk, pendingDelete, debounceTimer, scanQueue,
                   scans, apiKey, events, call,
                   notified, disposed>>

\* ai-note.updateTodoStatus and the panel's updateStatus message.
updateTodoStatus(todoId, status) ==
    /\ Event
    /\ store' = updateTodo(getTodos, todoId, [status |-> status], now).todos
    /\ serial' = updateTodo(serial, todoId, [status |-> status], now).todos
    /\ UNCHANGED <<persisted, now, disk, pendingDelete, debounceTimer, tasks,
                   scanQueue, scans, apiKey, call,
                   notified, disposed>>

\* StorageService.deleteTodo called for a record.
DeleteTodo(todoId) ==
    /\ Event
    /\ store' = deleteTodo(getTodos, todoId).todos
    /\ serial' = deleteTodo(serial, todoId).todos
    /\ UNCHANGED <<persisted, now, disk, pendingDelete, debounceTimer, tasks,
                   scanQueue, scans, apiKey, call,
                   notified, disposed>>

\* ai-note.clearAll, confirmed.
clearCommand ==
    /\ Event
    /\ store' = clearAll
    /\ serial' = clearAll
    /\ UNCHANGED <<persisted, now, disk, pendingDelete, debounceTimer, tasks,
                   scanQueue, scans, apiKey, call,
                   notified, disposed>>

\* ai-note.configureApiKey with a key entered.
configureApiKeyCommand ==
    /\ Event
    /\ ~apiKey
    /\ apiKey' = TRUE
    /\ UNCHANGED <<store, persisted, now, disk, pendingDelete, debounceTimer, tasks,
                   scanQueue, scans, serial, call,
                   notified, disposed>>

\* ai-note.semanticScan with the note file `filePath` in the active editor,
\* up to the fetch of callOpenAI: without a key it warns and returns.
semanticScanCommand(i, filePath) ==
    /\ Event
    /\ scans[i].pc = "idle"
    /\ scans' = [scans EXCEPT ![i] =
                    IF ~apiKey
                    THEN IdleScan("no-key", 0, "warning: OpenAI API key not configured")
                    ELSE [pc |-> "fetch", filePath |-> filePath, sentAt |-> now,
                          requests |-> 1, reply |-> "none", merges |-> 0,
                          shown |-> NoMessage]]
    /\ UNCHANGED <<store, persisted, now, disk, pendingDelete, debounceTimer, tasks,
                   scanQueue, apiKey, serial, call,
                   notified, disposed>>

\* ai-note.semanticScan from the provider's answer (or the abort of the
\* request) on: the catch block, the empty result, or the merge.
semanticScanReturns(i, reply) ==
    /\ scans[i].pc = "fetch"
    /\ now > scans[i].sentAt
    /\ LET r == semanticScan(reply, scans[i].filePath, now)
           m == mergeSemanticTodos(getTodos, scans[i].filePath, r.semanticTodos)
       IN  IF r.threw
           THEN /\ scans' = [scans EXCEPT ![i] =
                                IdleScan(reply.kind, 0, handleLLMError(r.error))]
                /\ UNCHANGED <<store, serial, disposed>>
           ELSE IF Len(r.semanticTodos) = 0
           THEN /\ scans' = [scans EXCEPT ![i] =
                                IdleScan(reply.kind, 0, "info: No implicit todos found")]
                /\ UNCHANGED <<store, serial, disposed>>
           ELSE IF m.threw
           THEN /\ scans' = [scans EXCEPT ![i] =
                                IdleScan(reply.kind, 1, handleLLMError(TypeError))]
                /\ UNCHANGED <<store, serial, disposed>>
           ELSE /\ scans' = [scans EXCEPT ![i] =
                                IdleScan(reply.kind, 1, "info: Found semantic todos")]
                /\ store' = m.todos
                /\ serial' = mergeSemanticTodos(serial, scans[i].filePath,
                                                r.semanticTodos).todos
    /\ UNCHANGED <<persisted, now, disk, pendingDelete, debounceTimer, tasks,
                   scanQueue, apiKey, events, call,
                   notified, disposed>>

Next ==
    \/ Tick
    \/ Wait
    \/ Persist
    \/ \E uri \in Files, doc \in 1..Len(Docs) : FileChanged(uri, doc)
    \/ \E uri \in Files, doc \in 1..Len(Docs) : DocumentChanged(uri, doc)
    \/ \E uri \in Files : FileDeleted(uri)
    \/ \E uri \in Files : FileUnreadable(uri)
    \/ \E uri \in Files : handleFileDelete(uri)
    \/ DebounceFires
    \/ scanAllFiles
    \/ \E uri \in Files : refreshCurrentFile(uri)
    \/ \E origin \in Origins : parseAndUpdate(origin)
    \/ \E todoId \in Ids(store) \cup {UnknownId}, status \in TodoStatus :
            updateTodoStatus(todoId, status)
    \/ \E todoId \in Ids(store) \cup {UnknownId} : DeleteTodo(todoId)
    \/ clearCommand
    \/ configureApiKeyCommand
    \/ \E i \in ScanIds, filePath \in Files : semanticScanCommand(i, filePath)
    \/ \E i \in ScanIds, reply \in SpecReplies : semanticScanReturns(i, reply)

Spec == Init /\ [][Next]_vars

(***************************************************************************)
(* SpecSemantic: the semantic-scan command against every kind of answer    *)
(***************************************************************************)

\* An element of `todos` without the field `field`.
Without(result, field) == [f \in DOMAIN result \ {field} |-> result[f]]

AllReplies ==
    {ReplyHttp(401), ReplyHttp(429), ReplyHttp(500), ReplyAbort, ReplyNetwork,
     ReplyEmpty, ReplyNotJson, ReplyNotArray, ReplyNoTodos,
     ReplyNoContent([todos |-> <<Without(SemanticTodoResult(<<"p">>, 1), "content")>>]),
     ReplyNoLineNumber(
         [todos |-> <<Without(SemanticTodoResult(<<"p">>, 1), "lineNumber")>>]),
     ReplyTodos([todos |-> <<>>]),
     ReplyTodos([todos |-> <<SemanticTodoResult(<<"p">>, 1)>>]),
     ReplyTodos([todos |-> <<SemanticTodoResult(<<"q">>, 0)>>])}

NextSemantic ==
    \/ Tick
    \/ Persist
    \/ configureApiKeyCommand
    \/ \E i \in ScanIds, filePath \in Files : semanticScanCommand(i, filePath)
    \/ \E i \in ScanIds, reply \in AllReplies : semanticScanReturns(i, reply)

SpecSemantic == Init /\ [][NextSemantic]_vars

(***************************************************************************)
(* SpecWatch: the watcher alone, with its timers firing and its promises   *)
(* resolving                                                               *)
(***************************************************************************)

NextWatch ==
    \/ Wait
    \/ \E uri \in Files, doc \in 1..Len(Docs) : FileChanged(uri, doc)
    \/ \E uri \in Files, doc \in 1..Len(Docs) : DocumentChanged(uri, doc)
    \/ DebounceFires
    \/ scanAllFiles
    \/ \E origin \in Origins : parseAndUpdate(origin)

\* The step of parseAndUpdate as the slots show it: an open call returns.
parseAndUpdateReturns ==
    \E origin \in Origins :
        /\ tasks[origin].pc = "open"
        /\ tasks' = [tasks EXCEPT ![origin] = IdleTask]

\* An armed timer fires when it is due, and an awaited promise resolves.
FairWatch ==
    /\ WF_vars(Wait)
    /\ WF_vars(DebounceFires)
    /\ WF_vars(scanAllFiles)
    /\ WF_tasks(parseAndUpdateReturns)

SpecWatch == Init /\ [][NextWatch]_vars /\ FairWatch

(***************************************************************************)
(* SpecDispose: the watcher, and its dispose()                             *)
(***************************************************************************)

\* FileWatcher.dispose(): clearTimeout on the timer and dispose of the file
\* system watcher.
dispose ==
    /\ ~disposed
    /\ disposed' = TRUE
    /\ debounceTimer' = NoTimer
    /\ UNCHANGED <<store, persisted, now, disk, pendingDelete, tasks, scanQueue,
                   scans, apiKey, events, serial, notified, call>>

NextDispose ==
    \/ Wait
    \/ \E uri \in Files, doc \in 1..Len(Docs) : FileChanged(uri, doc)
    \/ \E uri \in Files, doc \in 1..Len(Docs) : DocumentChanged(uri, doc)
    \/ \E uri \in Files : FileDeleted(uri)
    \/ \E uri \in Files : handleFileDelete(uri)
    \/ DebounceFires
    \/ scanAllFiles
    \/ \E origin \in Origins : parseAndUpdate(origin)
    \/ dispose

SpecDispose == Init /\ [][NextDispose]_vars

(***************************************************************************)
(* What the claims say, in the claims' own terms                           *)
(***************************************************************************)

\* The words of a text: its maximal runs of characters other than white
\* space, in lower case.
RECURSIVE WordsFrom(_, _)
WordsFrom(s, word) ==
    IF s = <<>> THEN (IF word = <<>> THEN <<>> ELSE <<word>>)
    ELSE IF IsWhiteSpace(Head(s))
         THEN (IF word = <<>> THEN <<>> ELSE <<word>>) \o WordsFrom(Tail(s), <<>>)
         ELSE WordsFrom(Tail(s), Append(word, LowerChar(Head(s))))

WordsOf(s) == WordsFrom(s, <<>>)

SameNormalizedContent(a, b) == WordsOf(a.content) = WordsOf(b.content)

\* Token-set similarity strictly above 0.8 = 4/5.
SimilarAbove(a, b) ==
    LET A == Range(WordsOf(a.content))
        B == Range(WordsOf(b.content))
    IN  5 * Cardinality(A \cap B) > 4 * Cardinality(A \cup B)

SimilarityIsFourFifths(a, b) ==
    LET A == Range(WordsOf(a.content))
        B == Range(WordsOf(b.content))
    IN  /\ A \cup B # {}
        /\ 5 * Cardinality(A \cap B) = 4 * Cardinality(A \cup B)

LineDistance(a, b) ==
    IF a.lineNumber >= b.lineNumber
    THEN a.lineNumber - b.lineNumber
    ELSE b.lineNumber - a.lineNumber

DuplicateOf(candidate, existing) ==
    \/ SameNormalizedContent(candidate, existing)
    \/ LineDistance(candidate, existing) <= 2 /\ SimilarAbove(candidate, existing)

StoredFor(todos, filePath) == {t \in Range(todos) : t.filePath = filePath}

Merging == call.op = "mergeSemanticTodos"

\* Candidate k of the last merge is in the store now.
Accepted(k) == call.semanticTodos[k] \in Range(store)

\* C3: in mergeSemanticTodos a candidate is skipped if and only if a record
\* stored for filePath before the call has the same normalized content, or
\* is within 2 lines of it and more than 0.8 similar; records of other files
\* never cause a skip.
C3_SkippedIffDuplicate ==
    Merging =>
        \A k \in 1..Len(call.semanticTodos) :
            ~Accepted(k) <=>
                \E e \in StoredFor(call.before, call.filePath) :
                    DuplicateOf(call.semanticTodos[k], e)

\* A merge that skipped one candidate for proximity and similarity alone and
\* accepted another that is exactly 0.8 similar to a record 2 lines away.
C3_Witness ==
    /\ Merging
    /\ \E k \in 1..Len(call.semanticTodos) :
          /\ ~Accepted(k)
          /\ \A e \in StoredFor(call.before, call.filePath) :
                ~SameNormalizedContent(call.semanticTodos[k], e)
    /\ \E k \in 1..Len(call.semanticTodos) :
          /\ Accepted(k)
          /\ \E e \in StoredFor(call.before, call.filePath) :
                /\ LineDistance(call.semanticTodos[k], e) = 2
                /\ SimilarityIsFourFifths(call.semanticTodos[k], e)
    /\ \E e \in Range(call.before) : e.filePath # call.filePath

\* The candidates of the last merge that are in the store, in input order.
AcceptedInOrder == SelectSeq(call.semanticTodos, LAMBDA c : c \in Range(store))

\* C4: mergeSemanticTodos only appends: the records stored before are all
\* still there, unchanged and in the same order, followed by the accepted
\* candidates in input order; with nothing accepted the store is not written.
C4_OnlyAppends ==
    Merging =>
        /\ store = call.before \o AcceptedInOrder
        /\ call.added = Len(store) - Len(call.before)
        /\ (call.added = 0 => ~call.saved)

\* A merge onto records of the same file that accepted two candidates.
C4_Witness ==
    /\ Merging
    /\ StoredFor(call.before, call.filePath) # {}
    /\ Len(store) = Len(call.before) + 2

\* C5: a candidate accepted earlier in the same call never causes a later
\* one to be skipped: a later candidate that duplicates an accepted earlier
\* one and no record stored before the call is accepted as well.
C5_BatchNotCompared ==
    Merging =>
        \A i, j \in 1..Len(call.semanticTodos) :
            ( /\ i < j
              /\ Accepted(i)
              /\ DuplicateOf(call.semanticTodos[j], call.semanticTodos[i])
              /\ \A e \in StoredFor(call.before, call.filePath) :
                    ~DuplicateOf(call.semanticTodos[j], e) )
            => Accepted(j)

\* Two candidates with the same content and line were both stored.
C5_Witness ==
    /\ Merging
    /\ \E i, j \in 1..Len(call.semanticTodos) :
          /\ i < j
          /\ call.semanticTodos[i].content = call.semanticTodos[j].content
          /\ call.semanticTodos[i].lineNumber = call.semanticTodos[j].lineNumber
          /\ Accepted(i)
          /\ Accepted(j)

(***************************************************************************)
(* The extension's claims                                                  *)
(***************************************************************************)

\* The step in which parseAndUpdate of `origin` replaces its file's records.
RescanStep(origin) == tasks[origin].pc = "open" /\ tasks'[origin].pc = "idle"

\* C1: an Inferred record accepted for a file stays in the store across
\* every re-scan of that file (parseAndUpdate -> updateTodosByFile): a
\* re-scan removes only Marker records.
C1_InferredSurvivesRescan ==
    [][\A origin \in Origins :
          RescanStep(origin) =>
              \A k \in 1..Len(store) :
                  store[k].source = Semantic => store[k].id \in Ids(store')]_vars

\* C2: when the file cannot be read during an extraction, the store is left
\* unchanged.
C2_ReadFailureLeavesStore ==
    [][\A origin \in Origins :
          (RescanStep(origin) /\ disk[tasks[origin].uri] = Unreadable)
              => store' = store]_vars

\* C6: no two stored records have the same id.
C6_UniqueIds ==
    \A i, j \in 1..Len(store) : i # j => store[i].id # store[j].id

\* C7: a stored record's id never changes, and the id of a record that was
\* removed is never given to a record created later (as by a re-scan of the
\* same file and line).
C7_IdFixedNeverReused ==
    [][/\ \A origin \in Origins :
             RescanStep(origin) =>
                 \A k \in 1..Len(store') :
                     store'[k].filePath = tasks[origin].uri
                         => store'[k].id \notin Ids(store)
       /\ (events' # events /\ Len(store') = Len(store)) =>
             \A k \in 1..Len(store) : store'[k].id = store[k].id]_vars

C9_ScansOfAFileSerialized ==
    \A i, j \in ScanIds :
        (i # j /\ scans[i].pc = "fetch" /\ scans[j].pc = "fetch")
            => scans[i].filePath # scans[j].filePath

FailedReplies == {"http", "abort", "network", "empty", "not-json", "todos-not-array"}

\* C10: when the inference request fails, mergeSemanticTodos is not called,
\* the store is unchanged, an error is shown, and nothing is retried: one
\* invocation issues at most one request.
C10_FailedScanLeavesStore ==
    /\ [](\A i \in ScanIds :
            /\ scans[i].requests <= 1
            /\ scans[i].reply \in FailedReplies =>
                  (scans[i].merges = 0 /\ scans[i].shown \in ErrorMessages)
            /\ scans[i].reply = "no-key" =>
                  (scans[i].merges = 0 /\ scans[i].shown # NoMessage))
    /\ [][\A i \in ScanIds :
             (scans[i].pc = "fetch" /\ scans'[i].reply \in FailedReplies)
                 => (store' = store /\ scans'[i].pc = "idle")]_vars

\* A request that timed out ended while the store held a record.
C10_Witness ==
    /\ store # <<>>
    /\ \E i \in ScanIds :
          /\ scans[i].pc = "idle"
          /\ scans[i].reply = "abort"
          /\ scans[i].shown = "error: Request timeout."

\* The answers C11 calls a malformed payload, by reply kind.
MalformedReplies == {"not-json", "no-todos", "no-content", "no-lineNumber"}

\* What handleLLMError shows for an error of no known class.
UnknownClassMessages == {"error: API Error", "error: Unexpected error"}

\* C11: a malformed inference payload (no JSON, no `todos` field, a
\* candidate without content or lineNumber) makes the scan fail with an
\* error of the Unknown class, and no record derived from it is stored.
C11_MalformedPayloadFailsScan ==
    /\ [](\A i \in ScanIds :
            scans[i].reply \in MalformedReplies =>
                scans[i].shown \in UnknownClassMessages)
    /\ [][\A i \in ScanIds :
             (scans[i].pc = "fetch" /\ scans'[i].reply \in MalformedReplies)
                 => store' = store]_vars

\* The step in which the debounce callback starts parseAndUpdate(uri).
DebounceStart(uri) ==
    /\ tasks["debounce"].pc = "idle"
    /\ tasks'["debounce"].pc = "open"
    /\ tasks'["debounce"].uri = uri

\* C12: the change notifications of a burst for one file coalesce: the burst
\* gets its one parseAndUpdate (while it is owed, the timer stays armed for
\* that file), started once per burst and only when the debounce window has
\* passed since the burst's last notification.
C12_BurstCoalesces ==
    /\ [](\A uri \in Files :
            notified[uri].pending =>
                (debounceTimer.armed /\ debounceTimer.uri = uri))
    /\ [][\A uri \in Files :
             DebounceStart(uri) =>
                 /\ notified[uri].pending
                 /\ now >= notified[uri].at + debounceDelay]_vars

\* A scan was made: its file, its text's lines, and the file's records after it.
Scanned == call.op = "scan"
ScannedLines == splitOn(call.content, "\n", <<>>)
ScannedRecords == SelectSeq(store, LAMBDA t : t.filePath = call.filePath)

\* C13: after a scan of a file its stored records are exactly the
\* classifier's matches on the scanned text, one per matching line, in
\* strictly ascending line order; none of its records of before remains and
\* the records of the other files are unchanged.
C13_ScanReplacesFile ==
    Scanned =>
        /\ \A k \in 1..(Len(ScannedRecords) - 1) :
              ScannedRecords[k].lineNumber < ScannedRecords[k + 1].lineNumber
        /\ \A k \in 1..Len(ScannedRecords) :
              /\ ScannedRecords[k].lineNumber \in 1..Len(ScannedLines)
              /\ \A j \in 1..Len(call.before) : call.before[j] # ScannedRecords[k]
        /\ \A i \in 1..Len(ScannedLines) :
              LET match == parseLine(call.filePath, ScannedLines[i], i, ScannedLines, now)
              IN  IF match = NoTodo
                  THEN \A k \in 1..Len(ScannedRecords) :
                          ScannedRecords[k].lineNumber # i
                  ELSE \E k \in 1..Len(ScannedRecords) : ScannedRecords[k] = match[1]
        /\ SelectSeq(store, LAMBDA t : t.filePath # call.filePath)
              = SelectSeq(call.before, LAMBDA t : t.filePath # call.filePath)

\* A scan of a text with markers on lines 1 and 3 only, of a file that had
\* a record, beside a record of the other file.
C13_Witness ==
    /\ Scanned
    /\ Len(ScannedLines) = 3
    /\ Len(ScannedRecords) = 2
    /\ ScannedRecords[1].lineNumber = 1
    /\ ScannedRecords[2].lineNumber = 3
    /\ Len(call.before) = 2
    /\ call.before[1].filePath = call.filePath
    /\ call.before[2].filePath # call.filePath

\* The records are in ascending order of lineNumber.
AscendingLines(todos) ==
    \A k \in 1..(Len(todos) - 1) : todos[k].lineNumber <= todos[k + 1].lineNumber

\* The two sequences hold the same records, each as often.
SameRecords(a, b) ==
    /\ Len(a) = Len(b)
    /\ \A x \in Range(a) \cup Range(b) :
          Cardinality({k \in 1..Len(a) : a[k] = x})
              = Cardinality({k \in 1..Len(b) : b[k] = x})

\* C14: in every reachable state getTodosForFile(filePath) returns exactly
\* the records stored for the file, sorted by ascending lineNumber.
C14_ForFileSorted ==
    \A filePath \in Files :
        /\ SameRecords(getTodosForFile(getTodos, filePath),
                       SelectSeq(store, LAMBDA t : t.filePath = filePath))
        /\ AscendingLines(getTodosForFile(getTodos, filePath))

\* getTodosByGroup was called: the groups it returned.
Grouped == call.op = "getTodosByGroup"

\* C15: getTodosByGroup partitions the store: one group per filePath among
\* the stored records, every record in the group of its filePath and in no
\* other, no group empty, each group sorted by ascending lineNumber; and
\* neither it nor getTodosForFile changes the stored collection or its order.
C15_GroupsPartition ==
    /\ Grouped =>
          /\ \A i, j \in 1..Len(call.groups) :
                i # j => call.groups[i].filePath # call.groups[j].filePath
          /\ {call.groups[i].filePath : i \in 1..Len(call.groups)}
                = {store[k].filePath : k \in 1..Len(store)}
          /\ \A i \in 1..Len(call.groups) :
                /\ call.groups[i].todos # <<>>
                /\ SameRecords(call.groups[i].todos,
                       SelectSeq(store,
                                 LAMBDA t : t.filePath = call.groups[i].filePath))
                /\ AscendingLines(call.groups[i].todos)
    /\ call.op \in {"getTodosByGroup", "getTodosForFile"} => store = call.before

\* Groups of two files were returned, one of them for records that are
\* stored in another order than that of their lines.
C15_Witness ==
    /\ Grouped
    /\ Len(call.groups) = 2
    /\ \E filePath \in Files :
          ~AscendingLines(SelectSeq(store, LAMBDA t : t.filePath = filePath))

\* updateTodo or deleteTodo was called.
Updating == call.op = "updateTodo"
Deleting == call.op = "deleteTodo"

\* C16: updateTodo and deleteTodo with an id that is not in the store return
\* false and leave the store unchanged (nothing is saved); with a stored id
\* they return true.
C16_UnknownIdReturnsFalse ==
    (Updating \/ Deleting) =>
        IF \E k \in 1..Len(call.before) : call.before[k].id = call.todoId
        THEN call.ret = TRUE
        ELSE call.ret = FALSE /\ store = call.before /\ ~call.saved

\* One of them was called with an id of the form scans give for a file that
\* has a record, on another line.
C16_Witness ==
    /\ Updating \/ Deleting
    /\ call.ret = FALSE
    /\ Len(store) = 2
    /\ call.todoId[3] = 0
    /\ store[1].filePath = call.todoId[1]
    /\ store[1].lineNumber # call.todoId[2]

\* The place of the record the call was for: the first with the id.
Target ==
    CHOOSE i \in 1..Len(call.before) :
        /\ call.before[i].id = call.todoId
        /\ \A k \in 1..(i - 1) : call.before[k].id # call.todoId

\* C17: updateTodo on a stored id changes only the record with that id: the
\* given fields are merged into it, its updatedAt becomes the current time,
\* it keeps its place, and every other record is unchanged; deleteTodo
\* removes exactly the records with the id.
C17_UpdateTouchesOneRecord ==
    /\ (Updating /\ call.ret) =>
          /\ Len(store) = Len(call.before)
          /\ \A k \in 1..Len(store) : k # Target => store[k] = call.before[k]
          /\ DOMAIN store[Target] = DOMAIN call.before[Target]
          /\ \A f \in DOMAIN store[Target] :
                store[Target][f] =
                    IF f = "updatedAt" THEN now
                    ELSE IF f \in DOMAIN call.updates THEN call.updates[f]
                    ELSE call.before[Target][f]
    /\ Deleting =>
          store = SelectSeq(call.before, LAMBDA t : t.id # call.todoId)

\* The second of two records was updated with fields that name updatedAt.
C17_Witness ==
    /\ Updating /\ call.ret
    /\ Len(store) = 2
    /\ Target = 2
    /\ "updatedAt" \in DOMAIN call.updates
    /\ store[2].content = Text6
    /\ store[2].updatedAt = now

\* handleFileDelete was called.
FileDeleteHandled == call.op = "handleFileDelete"

\* C18: deleting a file removes every record whose filePath is that file and
\* leaves every record of every other file, Inferred ones included, as it was.
C18_DeleteRemovesOnlyFile ==
    FileDeleteHandled =>
        /\ \A k \in 1..Len(store) : store[k].filePath # call.filePath
        /\ store = SelectSeq(call.before, LAMBDA t : t.filePath # call.filePath)

\* A file that had a record was deleted while the other file had a scanned
\* and an inferred record, which are the store now.
C18_Witness ==
    /\ FileDeleteHandled
    /\ \E k \in 1..Len(call.before) : call.before[k].filePath = call.filePath
    /\ \E k \in 1..Len(store) : store[k].source = Regex
    /\ \E k \in 1..Len(store) : store[k].source = Semantic

\* C19: mergeSemanticTodos returns added + skipped equal to the number of
\* candidates, and added equal to the number of records it appended: no
\* candidates give 0 and 0 and an unchanged store, and a file without stored
\* records has every candidate added.
C19_CountsTally ==
    Merging =>
        /\ call.added + call.skipped = Len(call.semanticTodos)
        /\ Len(store) = Len(call.before) + call.added
        /\ call.semanticTodos = <<>> =>
              (call.added = 0 /\ call.skipped = 0 /\ store = call.before)
        /\ StoredFor(call.before, call.filePath) = {} =>
              call.added = Len(call.semanticTodos)

\* A merge of two candidates of which one was added and one skipped.
C19_Witness ==
    /\ Merging
    /\ call.added = 1
    /\ call.skipped = 1
    /\ Len(store) = Len(call.before) + 1

\* The same candidates were merged a second time.
MergedAgain == call.op = "mergedAgain"

MergedTwice == call.op = "mergedTwice"

\* C21: re-running mergeSemanticTodos for a file with the same candidates
\* right after a first run stored its accepted records adds nothing: the
\* second run returns added 0 and skipped the number of candidates and
\* leaves the store as it was, so it differs from a first run that accepted
\* a candidate.
C21_RerunAddsNothing ==
    MergedTwice =>
        /\ call.added = 0
        /\ call.skipped = Len(call.semanticTodos)
        /\ store = call.before
        /\ ~call.saved
        /\ call.first.added >= 1 =>
              (call.added # call.first.added /\ call.skipped # call.first.skipped)

\* The first run accepted both of its candidates and the second run none.
C21_Witness ==
    /\ MergedTwice
    /\ call.first.added = 2
    /\ call.added = 0
    /\ call.skipped = 2

\* C22: every record in the store has lineNumber >= 1, the records scans
\* make and the records built from the line numbers the provider returns.
C22_LineNumbersFromOne ==
    \A k \in 1..Len(store) :
        Has(store[k], "lineNumber") /\ store[k].lineNumber >= 1

\* C23: every record in the store has createdAt <= updatedAt in every
\* reachable state: a record is created with createdAt = updatedAt, and no
\* sequence of updateTodo calls makes updatedAt smaller than createdAt (the
\* clock never goes backwards).
C23_CreatedBeforeUpdated ==
    /\ [](\A k \in 1..Len(store) : store[k].createdAt <= store[k].updatedAt)
    /\ [][/\ now' >= now
          /\ \A k \in 1..Len(store') :
                store'[k].id \notin Ids(store) =>
                    store'[k].createdAt = store'[k].updatedAt]_vars

\* A scanned record that was updated after it was created, beside an
\* inferred record created later than it.
C23_Witness ==
    /\ \E k \in 1..Len(store) :
          /\ store[k].source = Regex
          /\ store[k].status = Completed
          /\ store[k].createdAt < store[k].updatedAt
    /\ \E k \in 1..Len(store) : store[k].source = Semantic /\ store[k].createdAt > 0

(***************************************************************************)
(* The classifier's claims                                                 *)
(***************************************************************************)

\* parseLine was called: its line without the white space around it, and
\* what it returned.
Classified == call.op = "parseLine"

FirstInk(s) == CHOOSE i \in 1..Len(s) :
                   ~IsWhiteSpace(s[i]) /\ \A k \in 1..(i - 1) : IsWhiteSpace(s[k])

LastInk(s) == CHOOSE i \in 1..Len(s) :
                  ~IsWhiteSpace(s[i]) /\ \A k \in (i + 1)..Len(s) : IsWhiteSpace(s[k])

\* s without its leading and trailing white space.
Stripped(s) ==
    IF \A k \in 1..Len(s) : IsWhiteSpace(s[k]) THEN <<>>
    ELSE SubSeq(s, FirstInk(s), LastInk(s))

StrippedLine == Stripped(call.line)

\* The stripped line is a checkbox item whose box stands at position p:
\* `-` or `*`, one or more spaces, `[c]`, one or more spaces, a text.
CheckboxAt(t, p) ==
    /\ p >= 3
    /\ p + 3 <= Len(t)
    /\ t[1] \in {"-", "*"}
    /\ \A k \in 2..(p - 1) : t[k] = " "
    /\ t[p] = "["
    /\ t[p + 1] \in {"x", "X", "~", " "}
    /\ t[p + 2] = "]"
    /\ t[p + 3] = " "
    /\ Stripped(SubSeq(t, p + 3, Len(t))) # <<>>

IsCheckbox(t) == \E p \in 1..Len(t) : CheckboxAt(t, p)

BoxStatus(c) ==
    IF c \in {"x", "X"} THEN Completed
    ELSE IF c = "~" THEN InProgress
    ELSE Pending

\* C24: for every line whose trimmed form is a checkbox item the classifier
\* returns a record whose status is Completed for x or X, InProgress for ~
\* and Pending for a space, with the text after the checkbox, trimmed, as
\* content.
C24_CheckboxStatus ==
    Classified =>
        \A p \in 1..Len(StrippedLine) :
            CheckboxAt(StrippedLine, p) =>
                /\ Len(call.result) = 1
                /\ call.result[1].status = BoxStatus(StrippedLine[p + 1])
                /\ call.result[1].content
                      = Stripped(SubSeq(StrippedLine, p + 3, Len(StrippedLine)))

\* An indented `*` item with two spaces before its box `[X]` was classified
\* as Completed.
C24_Witness ==
    /\ Classified
    /\ call.line # <<>>
    /\ IsWhiteSpace(call.line[1])
    /\ CheckboxAt(StrippedLine, 4)
    /\ StrippedLine[1] = "*"
    /\ StrippedLine[5] = "X"
    /\ call.result # NoTodo
    /\ call.result[1].status = Completed

\* The four prefixes, in lower case.
MarkerPrefixes ==
    {<<"t", "o", "d", "o", ":">>,
     <<"d", "o", "n", "e", ":">>,
     <<"i", "n", " ", "p", "r", "o", "g", "r", "e", "s", "s", ":">>,
     <<"i", "n", "-", "p", "r", "o", "g", "r", "e", "s", "s", ":">>}

\* The prefix stands at position i of t, in any letter case.
PrefixAt(t, i, prefix) ==
    /\ i + Len(prefix) - 1 <= Len(t)
    /\ \A k \in 1..Len(prefix) : LowerChar(t[i + k - 1]) = prefix[k]

OccursIn(t, prefix) == \E i \in 1..Len(t) : PrefixAt(t, i, prefix)

\* What is left of t after the first occurrence of the prefix, stripped.
RemainderAfter(t, prefix) ==
    LET i == CHOOSE x \in 1..Len(t) :
                 PrefixAt(t, x, prefix) /\ \A y \in 1..(x - 1) : ~PrefixAt(t, y, prefix)
    IN  Stripped(SubSeq(t, i + Len(prefix), Len(t)))

\* A checkbox item whose gaps may be any white space.
IsCheckboxAnySpace(t) ==
    \E p \in 3..(Len(t) - 3) :
        /\ t[1] \in {"-", "*"}
        /\ \A k \in 2..(p - 1) : IsWhiteSpace(t[k])
        /\ t[p] = "["
        /\ t[p + 1] \in {"x", "X", "~", " "}
        /\ t[p + 2] = "]"
        /\ IsWhiteSpace(t[p + 3])
        /\ Stripped(SubSeq(t, p + 3, Len(t))) # <<>>

\* C25: for every line in which TODO:, DONE:, IN PROGRESS: or IN-PROGRESS:
\* occurs, in any letter case, and which is not a checkbox item, the
\* classifier returns a record whose content is the trimmed remainder of the
\* line after the first occurrence of such a prefix, also when nothing but
\* white space follows the prefix.
C25_PrefixRemainder ==
    (/\ Classified
     /\ ~IsCheckboxAnySpace(StrippedLine)
     /\ \E prefix \in MarkerPrefixes : OccursIn(StrippedLine, prefix))
        => /\ Len(call.result) = 1
           /\ \E prefix \in MarkerPrefixes :
                 /\ OccursIn(StrippedLine, prefix)
                 /\ call.result[1].content = RemainderAfter(StrippedLine, prefix)

\* Where the box of a checkbox item stands: after the bullet and its gap.
BoxAt(t) == CHOOSE p \in 2..Len(t) :
                ~IsWhiteSpace(t[p]) /\ \A k \in 2..(p - 1) : IsWhiteSpace(t[k])

InProgressPrefixes ==
    {<<"i", "n", " ", "p", "r", "o", "g", "r", "e", "s", "s", ":">>,
     <<"i", "n", "-", "p", "r", "o", "g", "r", "e", "s", "s", ":">>}

\* The result is one record with this status and content.
Gives(status, content) ==
    /\ Len(call.result) = 1
    /\ call.result[1].status = status
    /\ call.result[1].content = content

\* What the rules, taken in their order, give for the stripped line t.
ByPriority(t) ==
    IF IsCheckboxAnySpace(t)
    THEN Gives(BoxStatus(t[BoxAt(t) + 1]),
               Stripped(SubSeq(t, BoxAt(t) + 3, Len(t))))
    ELSE IF OccursIn(t, <<"t", "o", "d", "o", ":">>)
    THEN Gives(Pending, RemainderAfter(t, <<"t", "o", "d", "o", ":">>))
    ELSE IF OccursIn(t, <<"d", "o", "n", "e", ":">>)
    THEN Gives(Completed, RemainderAfter(t, <<"d", "o", "n", "e", ":">>))
    ELSE IF \E prefix \in InProgressPrefixes : OccursIn(t, prefix)
    THEN \E prefix \in InProgressPrefixes :
            /\ OccursIn(t, prefix)
            /\ Gives(InProgress, RemainderAfter(t, prefix))
    ELSE TRUE

\* The rules the stripped line t satisfies, by their rank.
RulesSatisfied(t) ==
    {rule \in 1..4 :
        \/ rule = 1 /\ IsCheckboxAnySpace(t)
        \/ rule = 2 /\ OccursIn(t, <<"t", "o", "d", "o", ":">>)
        \/ rule = 3 /\ OccursIn(t, <<"d", "o", "n", "e", ":">>)
        \/ rule = 4 /\ \E prefix \in InProgressPrefixes : OccursIn(t, prefix)}

\* C26: the classifier yields at most one record per line and applies its
\* rules in fixed priority: the checkbox form first, then TODO: (Pending),
\* then DONE: (Completed), then IN PROGRESS: or IN-PROGRESS: (InProgress); a
\* line that satisfies several rules gets the status and text of the first
\* of them.
C26_RulePriority ==
    Classified =>
        /\ Len(call.result) <= 1
        /\ Cardinality(RulesSatisfied(StrippedLine)) >= 2 => ByPriority(StrippedLine)

(***************************************************************************)
(* The similarity's claim                                                  *)
(***************************************************************************)

SimilarityCalled == call.op = "calculateSimilarity"

\* The tokens of a text: its words in lower case, as a set.
Tokens(s) == Range(WordsOf(s))

FixTheBug == <<"F", "i", "x", " ", "t", "h", "e", " ", "b", "u", "g">>
FixTheLoginBug ==
    <<"F", "i", "x", " ", "t", "h", "e", " ", "l", "o", "g", "i", "n", " ", "b", "u", "g">>

\* C27: calculateSimilarity(a, b) is 1 when the normalized strings are
\* identical (also when both are empty) and otherwise the number of common
\* tokens divided by the number of tokens of either; it is symmetric in its
\* arguments and lies in [0, 1]; {fix,the,bug} against {fix,the,login,bug}
\* gives 3/4, which is not above the threshold 0.8.
C27_SimilarityIsJaccard ==
    SimilarityCalled =>
        /\ call.result.den > 0
        /\ 0 <= call.result.num
        /\ call.result.num <= call.result.den
        /\ IF WordsOf(call.a) = WordsOf(call.b)
           THEN call.result.num = call.result.den
           ELSE call.result.num * Cardinality(Tokens(call.a) \cup Tokens(call.b))
                    = call.result.den * Cardinality(Tokens(call.a) \cap Tokens(call.b))
        /\ call.result.num * call.exchanged.den = call.exchanged.num * call.result.den
        /\ (call.a = FixTheBug /\ call.b = FixTheLoginBug) =>
              /\ call.result.num * 4 = call.result.den * 3
              /\ ~AboveThreshold(call.result)

\* `Fix the bug` was compared with `Fix the login bug`: 3/4.
C27_Witness ==
    /\ SimilarityCalled
    /\ call.a = FixTheBug
    /\ call.b = FixTheLoginBug
    /\ call.result = [num |-> 3, den |-> 4]

(***************************************************************************)
(* The watcher's claims                                                    *)
(***************************************************************************)

\* What a record says of its line: the line, the status and the text.
Said(todos) == [k \in 1..Len(todos) |->
                   <<todos[k].lineNumber, todos[k].status, todos[k].content>>]

\* The store's records for the file are those of the text the file holds.
Reflects(uri) ==
    /\ disk[uri] # Unreadable
    /\ Said(SelectSeq(store, LAMBDA t : t.filePath = uri))
          = Said(parseTodos(uri, Docs[disk[uri]], 0))

\* C28: every change notification for a note file is eventually followed by
\* an extraction of that file: with the timers firing, once notifications
\* stop the store's records for the file reflect its latest content, also
\* when notifications for other files arrive within the debounce window.
C28_ChangeEventuallyExtracted == \A uri \in Files : <>[]Reflects(uri)

\* C29: FileWatcher.dispose() stops watching: after it has returned, no
\* pending debounced extraction fires, and no later file or document event
\* (create, change, delete, document edit, document open) arms a new timer
\* or replaces a file's records in the store.
C29_DisposeStopsWatching ==
    [][disposed =>
          /\ ~debounceTimer'.armed
          /\ \A uri \in Files : ~DebounceStart(uri)
          /\ pendingDelete' = pendingDelete \/ store' = store]_vars

\* C30: a line that matches none of the four marker forms produces no
\* record; so a line that is no checkbox item and holds INPROGRESS:, with
\* neither a space nor a hyphen between IN and PROGRESS, and neither TODO:
\* nor DONE:, produces none.
C30_NoFormNoRecord ==
    (Classified /\ RulesSatisfied(StrippedLine) = {}) => call.result = NoTodo

====
